---- MODULE Spec2Model ----
(***************************************************************************)
(* AtlasQ lookup-to-operator compiler: AtlasTransform.transform and its    *)
(* helpers (src/atlasq/queryset/transform.py).                             *)
(*                                                                         *)
(* Encoding.                                                               *)
(*  - A lookup key is the token sequence key.split("__"); a path is the    *)
(*    sequence of its segments (the string is ".".join of it, and          *)
(*    path.split(".") gives the sequence back).                            *)
(*  - A Python value is a record [t |-> type name, v |-> text]; a caller's *)
(*    list object is [t |-> "list", v |-> reference] and its elements live *)
(*    in heap[reference], so that an in-place write is seen through every  *)
(*    alias of the list.                                                   *)
(*  - A dict fragment is a record with field op naming its single key.     *)
(*  - A raised exception is a record [op |-> "raise", exc, msg].           *)
(***************************************************************************)
EXTENDS Integers, Sequences, FiniteSets, TLC

VARIABLES atlas_query, atlas_index, heap, pc, n,
          affirmative, negative, other_aggregations,
          key_parts, value, positive, path, obj, converted, error

vars == <<atlas_query, atlas_index, heap, pc, n,
          affirmative, negative, other_aggregations,
          key_parts, value, positive, path, obj, converted, error>>

(***************************************************************************)
(* Bounds of the model                                                     *)
(***************************************************************************)
MaxDepth == 4

MaxListLen == 2

MaxEntries == 2

(***************************************************************************)
(* Class-level keyword tables                                              *)
(***************************************************************************)
id_keywords == {"pk", "id", "_id"}

keywords == {"ne", "lt", "gt", "lte", "gte", "in", "nin", "all", "size",
             "exists", "exact", "iexact", "contains", "icontains",
             "startswith", "istartswith", "iendswith", "endswith",
             "iwholeword", "wholeword", "not", "mod", "regex", "iregex",
             "match", "is", "type"}

type_keywords == {"type"}

negative_keywords == {"ne", "nin", "not"}

exists_keywords == {"exists"}

range_keywords == {"gt", "gte", "lt", "lte"}

equals_keywords == {}

\* a variant of the tuple that leaves int out
equals_types_without_int == {"bool", "oid", "datetime"}

equals_type_supported == {"bool", "oid", "int", "datetime"}

startswith_keywords == {"startswith", "istartswith"}

endswith_keywords == {"endswith", "iendswith"}

text_keywords == {"iwholeword", "wholeword", "exact", "iexact", "eq",
                  "contains", "icontains"}

all_keywords == {"all"}

regex_keywords == {"regex", "iregex"}

size_keywords == {"size"}

not_converted == {"mod", "match"}

(***************************************************************************)
(* Python values                                                           *)
(***************************************************************************)
Val(t, v) == [t |-> t, v |-> v]

PyNone == Val("none", "None")

PyFalse == Val("bool", "False")

PyTrue == Val("bool", "True")

\* isinstance(x, cls): bool is a subclass of int
isinstance(x, cls) == x.t = cls \/ (x.t = "bool" /\ cls = "int")

\* isinstance(x, (c1, c2, ...))
isinstance_any(x, classes) == \E cls \in classes : isinstance(x, cls)

\* bool(x), as used by "if not value"
truthy(x, h) ==
    CASE x.t = "none" -> FALSE
      [] x.t = "bool" -> x.v = "True"
      [] x.t = "int" -> x.v /= "0"
      [] x.t = "float" -> x.v /= "0.0"
      [] x.t = "str" -> x.v /= ""
      [] x.t = "dict" -> x.v /= "{}"
      [] x.t = "list" -> h[x.v] /= <<>>
      [] OTHER -> TRUE

\* value != 0 for a value that is an instance of int (False == 0, True == 1)
nonzero(x) == ~(x.v \in {"0", "False"})

\* the strings bson.ObjectId accepts: 24 hexadecimal characters
ValidObjectIdStrings == {"5f0000000000000000000001", "5f0000000000000000000002"}

\* ObjectId(s) for a str s: the identifier, or bson.errors.InvalidId
ObjectId(s) ==
    IF s.v \in ValidObjectIdStrings
    THEN Val("oid", s.v)
    ELSE [op |-> "raise", exc |-> "InvalidId", msg |-> "not a valid ObjectId"]

\* the characters of a str, as iterating over it yields them
StrChars(s) ==
    CASE s = "" -> <<>>
      [] s = "s" -> <<"s">>
      [] s = "a.b*c" -> <<"a", ".", "b", "*", "c">>
      [] s = "5f0000000000000000000001" ->
            <<"5", "f">> \o [k \in 1..21 |-> "0"] \o <<"1">>
      [] s = "5f0000000000000000000002" ->
            <<"5", "f">> \o [k \in 1..21 |-> "0"] \o <<"2">>

\* datetime.replace(microsecond=0)
replace_microsecond(d) ==
    IF d.v = "2020-01-01T12:00:00.250000"
    THEN Val("datetime", "2020-01-01T12:00:00.000000")
    ELSE d

\* re.escape(s): a backslash before each regex metacharacter
re_escape(s) == IF s = "a.b*c" THEN "a\\.b\\*c" ELSE s

Raise(exc, msg) == [op |-> "raise", exc |-> exc, msg |-> msg]

\* whether a result is a raised exception rather than a value or a fragment
IsRaise(f) == "exc" \in DOMAIN f

\* obj = None
NoneObj == [op |-> "None"]

\* no exception pending
NoError == [op |-> "None"]

(***************************************************************************)
(* Index catalog (atlasq.queryset.index.AtlasIndex, an external            *)
(* collaborator): [ensured, embedded, indexed, wildcard]                   *)
(***************************************************************************)
\* atlas_index.get_type_from_keyword(p) == AtlasIndexType.EMBEDDED_DOCUMENT.value
get_type_is_embedded(index, p) == p \in index.embedded

\* atlas_index.ensure_keyword_is_indexed(p)
ensure_keyword_is_indexed(index, p) == p \in index.indexed

\* "*" in atlas_index._indexed_fields
has_wildcard_field(index) == index.wildcard

(***************************************************************************)
(* Operator builders                                                       *)
(***************************************************************************)
_type(p, v) == [op |-> "$match", path |-> p, type |-> v]

_regex(p, v) == [op |-> "regex", query |-> v, path |-> p]

_embedded_document(p, content, pos) ==
    [op |-> "embeddedDocument",
     path |-> p,
     compound |-> IF pos THEN [must |-> <<content>>]
                         ELSE [mustNot |-> <<content>>]]

\* a variant that hands the caller's polarity to every scope, not only to
\* the innermost one
RECURSIVE convert_negating_every_scope(_, _, _, _, _)
convert_negating_every_scope(index, p, operator, pos, start) ==
    LET element == Head(p)
        rest == Tail(p)
        partial_path == start \o <<element>>
    IN  IF ~index.ensured THEN operator
        ELSE IF ~get_type_is_embedded(index, partial_path) THEN operator
        ELSE IF rest = <<>> THEN operator
        ELSE _embedded_document(partial_path,
                 convert_negating_every_scope(index, rest, operator, pos, partial_path),
                 pos)

\* a variant that goes on to the longer prefixes after a prefix that is not
\* an embedded document
RECURSIVE convert_past_plain_prefixes(_, _, _, _, _)
convert_past_plain_prefixes(index, p, operator, pos, start) ==
    LET element == Head(p)
        rest == Tail(p)
        partial_path == start \o <<element>>
    IN  IF ~index.ensured THEN operator
        ELSE IF rest = <<>> THEN operator
        ELSE LET new_operator ==
                     convert_past_plain_prefixes(index, rest, operator, pos,
                                                 partial_path)
             IN  IF ~get_type_is_embedded(index, partial_path) THEN new_operator
                 ELSE _embedded_document(partial_path, new_operator,
                                         IF operator /= new_operator THEN TRUE
                                                                     ELSE pos)

RECURSIVE _convert_to_embedded_document(_, _, _, _, _)
_convert_to_embedded_document(index, p, operator, pos, start) ==
    LET element == Head(p)
        rest == Tail(p)
        partial_path == start \o <<element>>
    IN  IF ~index.ensured THEN operator
        ELSE IF ~get_type_is_embedded(index, partial_path) THEN operator
        ELSE IF rest = <<>> THEN operator
        ELSE LET new_operator ==
                     _convert_to_embedded_document(index, rest, operator, pos,
                                                   partial_path)
             IN  _embedded_document(partial_path, new_operator,
                                    IF operator /= new_operator THEN TRUE
                                                                ELSE pos)

_exists(p) == [op |-> "exists", path |-> p]

_range(p, v, kws) ==
    IF \E k \in 1..Len(kws) : kws[k] \notin range_keywords
    THEN Raise("AtlasFieldError", "range keyword")
    ELSE IF isinstance(v, "datetime")
    THEN [op |-> "range", path |-> p,
          bounds |-> [k \in {kws[j] : j \in 1..Len(kws)} |-> replace_microsecond(v)]]
    ELSE IF isinstance(v, "int")
    THEN [op |-> "range", path |-> p,
          bounds |-> [k \in {kws[j] : j \in 1..Len(kws)} |-> v]]
    ELSE Raise("AtlasFieldError", "range value must be datetime or integer")

_single_equals(p, v) ==
    IF ~isinstance_any(v, equals_type_supported)
    THEN Raise("AtlasFieldError", "equals value must be ObjectId or bool")
    ELSE [op |-> "equals", path |-> p, value |-> v]

\* the first exception of a sequence of results, if any
FirstRaise(fs) ==
    LET bad == {k \in 1..Len(fs) : IsRaise(fs[k])}
    IN  fs[CHOOSE k \in bad : \A j \in bad : k <= j]

AnyRaise(fs) == \E k \in 1..Len(fs) : IsRaise(fs[k])

_equals(p, v, h) ==
    IF isinstance(v, "list")
    THEN LET values == h[v.v]
             clauses == [k \in 1..Len(values) |-> _single_equals(p, values[k])]
         IN  IF values = <<>>
             THEN Raise("AtlasFieldError", "cannot be empty")
             ELSE IF AnyRaise(clauses) THEN FirstRaise(clauses)
             ELSE [op |-> "compound",
                   compound |-> [should |-> clauses, minimumShouldMatch |-> 1]]
    ELSE _single_equals(p, v)

_text(index, p, v, h) ==
    IF ~truthy(v, h)
    THEN Raise("AtlasFieldError", "text value cannot be falsy")
    ELSE IF has_wildcard_field(index)
    THEN [op |-> "text", query |-> v, wildcard |-> "*"]
    ELSE [op |-> "text", query |-> v, path |-> p]

_startswith(p, v, h) ==
    IF ~truthy(v, h)
    THEN Raise("AtlasFieldError", "text value cannot be falsy")
    ELSE IF ~isinstance(v, "str")
    THEN Raise("TypeError", "re.escape expects a string")
    ELSE _regex(p, Val("str", re_escape(v.v) \o ".*"))

_endswith(p, v, h) ==
    IF ~truthy(v, h)
    THEN Raise("AtlasFieldError", "text value cannot be falsy")
    ELSE IF ~isinstance(v, "str")
    THEN Raise("TypeError", "re.escape expects a string")
    ELSE _regex(p, Val("str", ".*" \o re_escape(v.v)))

\* a variant without the "value != 0" test
size_of_any_int(p, v, operator) ==
    IF ~isinstance(v, "int")
    THEN Raise("AtlasFieldError", "size must be an int")
    ELSE IF operator \notin {"eq", "ne"}
    THEN Raise("NotImplementedError", "size must be eq or ne")
    ELSE [op |-> "$match", path |-> p, exists |-> TRUE, cmp |-> operator]

_size(p, v, operator) ==
    IF ~isinstance(v, "int")
    THEN Raise("AtlasFieldError", "size must be an int")
    ELSE IF nonzero(v)
    THEN Raise("NotImplementedError", "size must be 0")
    ELSE IF operator \notin {"eq", "ne"}
    THEN Raise("NotImplementedError", "size must be eq or ne")
    ELSE [op |-> "$match", path |-> p, exists |-> TRUE, cmp |-> operator]

\* a variant that asks the catalog about the whole path only
ensure_whole_path_only(index, p) ==
    IF ensure_keyword_is_indexed(index, p) THEN NoError
    ELSE Raise("AtlasIndexFieldError", ToString(p))

_ensure_path_is_indexed(index, p) ==
    LET missing == {k \in 1..Len(p) :
                        ~ensure_keyword_is_indexed(index, SubSeq(p, 1, k))}
    IN  IF missing = {} THEN NoError
        ELSE Raise("AtlasIndexFieldError",
                   ToString(SubSeq(p, 1, CHOOSE k \in missing :
                                             \A j \in missing : k <= j)))

(***************************************************************************)
(* Identifier coercion and the type-directed dispatcher                    *)
(***************************************************************************)
\* the loop "for j in range(len(value))" from index j on: the elements as the
\* loop leaves them (written in place up to the first failure) and the error
RECURSIVE CastElements(_, _)
CastElements(items, j) ==
    IF j > Len(items) THEN [items |-> items, error |-> NoError]
    ELSE IF isinstance(items[j], "str")
    THEN LET r == ObjectId(items[j])
         IN  IF IsRaise(r) THEN [items |-> items, error |-> r]
             ELSE CastElements([items EXCEPT ![j] = r], j + 1)
    ELSE IF isinstance(items[j], "oid")
    THEN CastElements(items, j + 1)
    ELSE [items |-> items, error |-> Raise("TypeError", "wrong type for id field")]

\* a variant that validates a string but hands it back unparsed
cast_keeping_strings(v, h) ==
    IF isinstance(v, "str")
    THEN LET r == ObjectId(v)
         IN  IF IsRaise(r) THEN [value |-> v, heap |-> h, error |-> r]
             ELSE [value |-> v, heap |-> h, error |-> NoError]
    ELSE IF isinstance(v, "list")
    THEN LET c == CastElements(h[v.v], 1)
         IN  [value |-> v, heap |-> h, error |-> c.error]
    ELSE IF isinstance(v, "oid")
    THEN [value |-> v, heap |-> h, error |-> NoError]
    ELSE [value |-> v, heap |-> h,
          error |-> Raise("TypeError", "wrong type for id field")]

\* returns the value, the heap after the in-place writes, and the error
_cast_to_object_id(v, h) ==
    IF isinstance(v, "str")
    THEN LET r == ObjectId(v)
         IN  IF IsRaise(r) THEN [value |-> v, heap |-> h, error |-> r]
             ELSE [value |-> r, heap |-> h, error |-> NoError]
    ELSE IF isinstance(v, "list")
    THEN LET c == CastElements(h[v.v], 1)
         IN  [value |-> v, heap |-> [h EXCEPT ![v.v] = c.items], error |-> c.error]
    ELSE IF isinstance(v, "oid")
    THEN [value |-> v, heap |-> h, error |-> NoError]
    ELSE [value |-> v, heap |-> h,
          error |-> Raise("TypeError", "wrong type for id field")]

_auto_convert_type_to_keyword(index, p, v, h) ==
    IF isinstance(v, "list")
    THEN LET items == h[v.v]
         IN  IF items = <<>>
             THEN Raise("IndexError", "list index out of range")
             ELSE IF ~\A k \in 1..Len(items) :
                        isinstance(items[k], items[1].t) \/ items[k] = PyNone
             THEN Raise("TypeError", "elements of a list should have the same type")
             ELSE IF isinstance_any(items[1], equals_type_supported)
             THEN _equals(p, v, h)
             ELSE _text(index, p, v, h)
    ELSE IF isinstance(v, "dict")
    THEN Raise("TypeError", "dictionary as a value")
    ELSE IF isinstance_any(v, equals_type_supported)
    THEN _equals(p, v, h)
    ELSE _text(index, p, v, h)

\* what "for value in values" yields; a value that is not iterable raises
Iterate(v, h) ==
    CASE v.t = "list" -> h[v.v]
      [] v.t = "str" -> [k \in 1..Len(StrChars(v.v)) |-> Val("str", StrChars(v.v)[k])]
      [] v.t = "dict" -> IF v.v = "{}" THEN <<>> ELSE <<Val("str", "k")>>
      [] OTHER -> <<Raise("TypeError", "object is not iterable")>>

_all(index, p, values, h) ==
    LET its == Iterate(values, h)
        filters == [k \in 1..Len(its) |->
                       IF IsRaise(its[k]) THEN its[k]
                       ELSE _auto_convert_type_to_keyword(index, p, its[k], h)]
    IN  IF AnyRaise(filters) THEN FirstRaise(filters)
        ELSE [op |-> "compound", compound |-> [must |-> filters]]

(***************************************************************************)
(* Fragment merger                                                         *)
(***************************************************************************)
\* a variant that appends the new scope without looking for one on its path
merge_always_appending(o, list_of_obj) == Append(list_of_obj, o)

merge_embedded_documents(o, list_of_obj) ==
    LET p == o.path
        operator == CHOOSE k \in DOMAIN o.compound : TRUE
        content == o.compound[operator]
        hits == {k \in 1..Len(list_of_obj) :
                    /\ list_of_obj[k].op = "embeddedDocument"
                    /\ list_of_obj[k].path = p}
    IN  IF hits = {} THEN Append(list_of_obj, o)
        ELSE LET k == CHOOSE x \in hits : \A y \in hits : x <= y
                 old == list_of_obj[k].compound
                 new == [c \in DOMAIN old \cup {operator} |->
                            IF c = operator
                            THEN (IF c \in DOMAIN old THEN old[c] ELSE <<>>) \o content
                            ELSE old[c]]
             IN  [list_of_obj EXCEPT ![k].compound = new]

(***************************************************************************)
(* Compile driver: one iteration of "for key, value in atlas_query.items()" *)
(***************************************************************************)
\* the documents a QuerySet value yields when cast to a list
QuerySetItems(q) == IF q.v = "Q0" THEN <<>> ELSE <<Val("document", "doc1")>>

\* the reference of the list object that list(value) creates in iteration k
FreshRef(k) == "list@" \o ToString(k)

\* the state of the scan after a builder returned r: obj is set and the scan
\* breaks, or the exception propagates
Built(st, r) ==
    IF IsRaise(r) THEN [st EXCEPT !.error = r]
    ELSE [st EXCEPT !.obj = r, !.brk = TRUE]

\* the body of "for i, keyword in enumerate(key_parts)" at (1-based) position k
ScanToken(index, st0, k) ==
    IF st0.key_parts[k] \in id_keywords
    THEN \* keyword = "_id" is no member of keywords: continue
         LET c == _cast_to_object_id(st0.value, st0.heap)
         IN  [st0 EXCEPT !.key_parts[k] = "_id", !.value = c.value,
                         !.heap = c.heap, !.error = c.error]
    ELSE IF st0.key_parts[k] \notin keywords THEN st0
    ELSE
    LET keyword == st0.key_parts[k]
        st1 == [st0 EXCEPT !.path = IF st0.path = <<>>
                                    THEN SubSeq(st0.key_parts, 1, k - 1)
                                    ELSE st0.path]
        st == [st1 EXCEPT !.positive = IF keyword \in negative_keywords
                                       THEN -1 * st1.positive
                                       ELSE st1.positive]
    IN  IF keyword \in not_converted
        THEN [st1 EXCEPT !.error = Raise("NotImplementedError", "keyword not implemented")]
        ELSE IF keyword \in size_keywords
        THEN IF k /= Len(st.key_parts)
             THEN [st EXCEPT !.error = Raise("NotImplementedError", "keyword not implemented")]
             ELSE LET r == _size(st.path, st.value, IF st.positive = 1 THEN "eq" ELSE "ne")
                  IN  IF IsRaise(r) THEN [st EXCEPT !.error = r]
                      ELSE [st EXCEPT !.other_aggregations = Append(@, r), !.brk = TRUE]
        ELSE IF keyword \in exists_keywords
        THEN [st EXCEPT !.positive = IF st.value = PyFalse THEN -1 * @ ELSE @,
                        !.obj = _exists(st.path), !.brk = TRUE]
        ELSE IF keyword \in range_keywords
        THEN Built(st, _range(st.path, st.value, <<keyword>>))
        ELSE IF keyword \in equals_keywords
        THEN Built(st, _equals(st.path, st.value, st.heap))
        ELSE IF keyword \in text_keywords
        THEN Built(st, _text(index, st.path, st.value, st.heap))
        ELSE IF keyword \in regex_keywords
        THEN Built(st, _regex(st.path, st.value))
        ELSE IF keyword \in all_keywords
        THEN Built(st, _all(index, st.path, st.value, st.heap))
        ELSE IF keyword \in startswith_keywords
        THEN Built(st, _startswith(st.path, st.value, st.heap))
        ELSE IF keyword \in endswith_keywords
        THEN Built(st, _endswith(st.path, st.value, st.heap))
        ELSE IF keyword \in type_keywords
        THEN IF st.positive = -1
             THEN [st EXCEPT !.error = Raise("NotImplementedError", "negative type keyword")]
             ELSE [st EXCEPT !.other_aggregations = Append(@, _type(st.path, st.value))]
        ELSE st

\* the for loop over key_parts from position k on, until a break or a raise
RECURSIVE ScanFrom(_, _, _)
ScanFrom(index, st, k) ==
    IF k > Len(st.key_parts) \/ st.brk \/ IsRaise(st.error) THEN st
    ELSE ScanFrom(index, ScanToken(index, st, k), k + 1)

\* the else clause of the for loop: runs when the loop ended without a break
ForElse(index, st) ==
    IF st.brk \/ IsRaise(st.error) THEN st
    ELSE LET p == IF st.path = <<>> THEN st.key_parts ELSE st.path
             r == _auto_convert_type_to_keyword(index, p, st.value, st.heap)
         IN  IF IsRaise(r) THEN [st EXCEPT !.path = p, !.error = r]
             ELSE [st EXCEPT !.path = p, !.obj = r]

\* a variant that appends every unwrapped fragment to the affirmative list
place_ignoring_polarity(index, st) ==
    IF IsRaise(st.error) \/ st.obj = NoneObj THEN st
    ELSE LET e == IF index.ensured THEN _ensure_path_is_indexed(index, st.path)
                                   ELSE NoError
             c == _convert_to_embedded_document(index, st.path, st.obj,
                                                st.positive = 1, <<>>)
         IN  IF IsRaise(e) THEN [st EXCEPT !.error = e]
             ELSE IF st.obj /= c
             THEN [st EXCEPT !.converted = c,
                             !.affirmative = merge_embedded_documents(c, @)]
             ELSE [st EXCEPT !.converted = c, !.affirmative = Append(@, c)]

\* "if obj:": validate the path, wrap, and merge or append
Place(index, st) ==
    IF IsRaise(st.error) \/ st.obj = NoneObj THEN st
    ELSE LET e == IF index.ensured THEN _ensure_path_is_indexed(index, st.path)
                                   ELSE NoError
             c == _convert_to_embedded_document(index, st.path, st.obj,
                                                st.positive = 1, <<>>)
         IN  IF IsRaise(e) THEN [st EXCEPT !.error = e]
             ELSE IF st.obj /= c
             THEN [st EXCEPT !.converted = c,
                             !.affirmative = merge_embedded_documents(c, @)]
             ELSE IF st.positive = 1
             THEN [st EXCEPT !.converted = c, !.affirmative = Append(@, c)]
             ELSE [st EXCEPT !.converted = c, !.negative = Append(@, c)]

\* the locals as an iteration begins, for the k-th entry of the mapping
ScanStart(entry, k, aff, neg, other, conv, h) ==
    LET isqs == entry.value.t = "queryset"
    IN  [key_parts |-> entry.key,
         value |-> IF isqs THEN Val("list", FreshRef(k)) ELSE entry.value,
         positive |-> 1,
         path |-> <<>>,
         obj |-> NoneObj,
         converted |-> conv,
         error |-> NoError,
         brk |-> FALSE,
         affirmative |-> aff,
         negative |-> neg,
         other_aggregations |-> other,
         heap |-> IF isqs THEN (FreshRef(k) :> QuerySetItems(entry.value)) @@ h
                          ELSE h]

\* one whole iteration, for the k-th entry of the mapping, from the
\* accumulated lists and the heap
LoopBody(index, entry, k, aff, neg, other, conv, h) ==
    Place(index, ForElse(index,
        ScanFrom(index, ScanStart(entry, k, aff, neg, other, conv, h), 1)))

(***************************************************************************)
(* The state machine                                                       *)
(***************************************************************************)
StartLocals ==
    /\ pc = "loop"
    /\ n = 0
    /\ affirmative = <<>>
    /\ negative = <<>>
    /\ other_aggregations = <<>>
    /\ key_parts = <<>>
    /\ value = PyNone
    /\ positive = 1
    /\ path = <<>>
    /\ obj = NoneObj
    /\ converted = NoneObj
    /\ error = NoError

Next_st == LoopBody(atlas_index, atlas_query[n + 1], n + 1, affirmative, negative,
                    other_aggregations, converted, heap)

SetLocals(st) ==
    /\ key_parts' = st.key_parts
    /\ value' = st.value
    /\ positive' = st.positive
    /\ path' = st.path
    /\ obj' = st.obj
    /\ converted' = st.converted
    /\ heap' = st.heap

\* an iteration of the loop that runs to its end
Iterate_ok ==
    /\ pc = "loop"
    /\ n < Len(atlas_query)
    /\ \E st \in {Next_st} :
        /\ ~IsRaise(st.error)
        /\ SetLocals(st)
        /\ affirmative' = st.affirmative
        /\ negative' = st.negative
        /\ other_aggregations' = st.other_aggregations
    /\ n' = n + 1
    /\ UNCHANGED <<atlas_query, atlas_index, pc, error>>

\* an iteration that raises: transform ends, nothing is returned
Iterate_raise ==
    /\ pc = "loop"
    /\ n < Len(atlas_query)
    /\ \E st \in {Next_st} :
        /\ IsRaise(st.error)
        /\ SetLocals(st)
        /\ error' = st.error
    /\ pc' = "raised"
    /\ n' = n + 1
    /\ UNCHANGED <<atlas_query, atlas_index, affirmative, negative, other_aggregations>>

\* return affirmative, negative, other_aggregations
Return ==
    /\ pc = "loop"
    /\ n = Len(atlas_query)
    /\ pc' = "returned"
    /\ UNCHANGED <<atlas_query, atlas_index, heap, n, affirmative, negative,
                   other_aggregations, key_parts, value, positive, path, obj,
                   converted, error>>

Next == Iterate_ok \/ Iterate_raise \/ Return

(***************************************************************************)
(* Inputs: lookup keys, values, catalogs                                   *)
(***************************************************************************)
FieldChain == <<"a", "b", "c", "d", "e">>

Chain(k) == SubSeq(FieldChain, 1, k)

\* the field paths a.b.c... up to MaxDepth, and a sibling leaf x at each level
FieldPaths == {Chain(k) : k \in 1..MaxDepth}
                  \cup {Chain(k) \o <<"x">> : k \in 1..(MaxDepth - 1)}

\* key prefixes that name the identifier by one of its aliases
AliasPaths == {<<"id">>, <<"pk">>, <<"_id">>, <<"a", "id">>}

\* every path the catalog may be asked about
KnownPaths == FieldPaths \cup {<<"_id">>, <<"a", "_id">>}

\* what follows the path in a key: nothing, or keywords (and stray tokens)
Suffixes == {<<>>, <<"ne">>, <<"in">>, <<"nin">>, <<"not">>, <<"is">>,
             <<"gt">>, <<"ne", "gte">>, <<"lt">>, <<"exists">>,
             <<"not", "exists">>, <<"size">>, <<"ne", "size">>,
             <<"not", "ne", "size">>, <<"size", "x">>, <<"type">>,
             <<"not", "type">>, <<"type", "ne">>, <<"type", "size">>,
             <<"contains">>, <<"iexact">>, <<"regex">>, <<"all">>,
             <<"startswith">>, <<"iendswith">>, <<"mod">>, <<"match">>,
             <<"gt", "id">>, <<"ne", "pk">>, <<"exists", "_id">>}

Keys == {p \o s : p \in FieldPaths \cup AliasPaths, s \in Suffixes}

ScalarValues ==
    {Val("int", "0"), Val("int", "5"), PyTrue, PyFalse, PyNone,
     Val("str", ""), Val("str", "s"), Val("str", "a.b*c"),
     Val("str", "5f0000000000000000000001"),
     Val("oid", "5f0000000000000000000002"),
     Val("float", "0.0"), Val("float", "1.5"),
     Val("datetime", "2020-01-01T12:00:00.250000"),
     Val("dict", "{}"), Val("dict", "{k}"),
     Val("queryset", "Q0"), Val("queryset", "Q1")}

\* the elements of the caller's lists
ElementValues ==
    {Val("int", "5"), PyTrue, PyNone, Val("str", "s"),
     Val("str", "5f0000000000000000000001"),
     Val("oid", "5f0000000000000000000002")}

SeqsUpTo(S, k) == UNION {[1..m -> S] : m \in 0..k}

ListContents == SeqsUpTo(ElementValues, MaxListLen)

\* keys under which the list values are tried
ListKeys == {<<"a">>, <<"a", "in">>, <<"a", "nin">>, <<"a", "all">>,
             <<"a", "contains">>, <<"a", "size">>, <<"a", "gt">>,
             <<"id">>, <<"pk", "in">>, <<"a", "_id", "nin">>,
             <<"a", "gt", "id">>}

Catalog(ensured, embedded, unindexed, wildcard) ==
    [ensured |-> ensured, embedded |-> embedded,
     indexed |-> KnownPaths \ unindexed, wildcard |-> wildcard]

EmbeddedChoices == SUBSET {Chain(k) : k \in 1..MaxDepth}

UnindexedChoices == {{}} \cup {{p} : p \in KnownPaths}

\* every typing of the chain's prefixes with every path indexed, and every
\* single unindexed path with no prefix or the first prefix embedded
Catalogs ==
    {Catalog(e, m, {}, FALSE) : e \in BOOLEAN, m \in EmbeddedChoices}
        \cup {Catalog(e, m, u, FALSE) : e \in BOOLEAN, m \in {{}, {<<"a">>}},
                                        u \in UnindexedChoices}

BaseCatalogs == {Catalog(e, {}, {}, w) : e \in BOOLEAN, w \in BOOLEAN}

\* keys under which every catalog is tried
CatalogKeys == {p \o s : p \in FieldPaths \cup {<<"a", "id">>},
                         s \in {<<>>, <<"ne">>, <<"gt">>, <<"not", "exists">>,
                                <<"type">>, <<"size">>}}

CatalogValues == {Val("int", "5"), Val("str", "s"), Val("int", "0"),
                  Val("oid", "5f0000000000000000000002")}

Entry(k, v) == [key |-> k, value |-> v]

\* a mapping of one lookup
Init ==
    /\ StartLocals
    /\ \/ \E k \in Keys, v \in ScalarValues, c \in BaseCatalogs :
            /\ atlas_query = <<Entry(k, v)>>
            /\ heap = ("L1" :> <<>>)
            /\ atlas_index = c
       \/ \E k \in ListKeys, items \in ListContents, c \in BaseCatalogs :
            /\ atlas_query = <<Entry(k, Val("list", "L1"))>>
            /\ heap = ("L1" :> items)
            /\ atlas_index = c
       \/ \E k \in CatalogKeys, v \in CatalogValues, c \in Catalogs :
            /\ atlas_query = <<Entry(k, v)>>
            /\ heap = ("L1" :> <<>>)
            /\ atlas_index = c

Spec == Init /\ [][Next]_vars

(***************************************************************************)
(* transform() as a whole, and the content of what it returns              *)
(***************************************************************************)
\* the loop from the k-th entry on; the result is what transform returns
\* (status "returned") or the exception it ends with (status "raised")
RECURSIVE TransformFrom(_, _, _, _, _, _, _, _)
TransformFrom(index, query, k, aff, neg, other, conv, h) ==
    IF k > Len(query)
    THEN [status |-> "returned", affirmative |-> aff, negative |-> neg,
          other_aggregations |-> other, heap |-> h, error |-> NoError]
    ELSE LET st == LoopBody(index, query[k], k, aff, neg, other, conv, h)
         IN  IF IsRaise(st.error)
             THEN [status |-> "raised", affirmative |-> <<>>, negative |-> <<>>,
                   other_aggregations |-> <<>>, heap |-> st.heap, error |-> st.error]
             ELSE TransformFrom(index, query, k + 1, st.affirmative, st.negative,
                                st.other_aggregations, st.converted, st.heap)

transform(index, query, h) ==
    TransformFrom(index, query, 1, <<>>, <<>>, <<>>, NoneObj, h)

\* a value with a list reference replaced by the list's elements
DerefValue(v, h) ==
    IF v.t = "list" THEN [t |-> "list", items |-> h[v.v]] ELSE v

\* a fragment with every list it refers to replaced by the list's elements
RECURSIVE Deref(_, _)
Deref(f, h) ==
    CASE f.op = "text" -> [f EXCEPT !.query = DerefValue(@, h)]
      [] f.op = "regex" -> [f EXCEPT !.query = DerefValue(@, h)]
      [] f.op = "$match" /\ "type" \in DOMAIN f -> [f EXCEPT !.type = DerefValue(@, h)]
      [] f.op \in {"compound", "embeddedDocument"} ->
            [f EXCEPT !.compound =
                [c \in DOMAIN f.compound |->
                    IF c = "minimumShouldMatch" THEN f.compound[c]
                    ELSE [k \in 1..Len(f.compound[c]) |-> Deref(f.compound[c][k], h)]]]
      [] OTHER -> f

DerefAll(fs, h) == [k \in 1..Len(fs) |-> Deref(fs[k], h)]

(***************************************************************************)
(* Mappings of several lookups: the entries are tried in every order, and  *)
(* two entries may hold the same list object                               *)
(***************************************************************************)
HexString == Val("str", "5f0000000000000000000001")

MergeEntries ==
    {Entry(<<"a">>, Val("int", "5")),
     Entry(<<"a", "x">>, Val("int", "5")),
     Entry(<<"a", "x", "ne">>, Val("str", "s")),
     Entry(<<"a", "b">>, Val("str", "s")),
     Entry(<<"a", "b", "x">>, Val("int", "5")),
     Entry(<<"a", "b", "x", "ne">>, Val("int", "5")),
     Entry(<<"a", "b", "c", "gt">>, Val("int", "5")),
     Entry(<<"a", "type">>, Val("str", "s")),
     Entry(<<"a", "b", "size">>, Val("int", "0")),
     Entry(<<"id", "in">>, Val("list", "L1")),
     Entry(<<"a", "x", "in">>, Val("list", "L1"))}

MergeListContents == {<<HexString>>, <<Val("oid", "5f0000000000000000000002")>>}

MergeCatalogs ==
    {Catalog(TRUE, {<<"a">>}, {}, FALSE),
     Catalog(TRUE, {<<"a">>, <<"a", "b">>}, {}, FALSE),
     Catalog(TRUE, {<<"a", "b">>}, {}, FALSE),
     Catalog(TRUE, {<<"a">>, <<"a", "b">>}, {<<"a", "b", "x">>}, FALSE),
     Catalog(FALSE, {<<"a">>, <<"a", "b">>}, {}, FALSE)}

\* the sequences of at most k entries with distinct keys
DistinctKeySeqs(S, k) ==
    {q \in SeqsUpTo(S, k) :
        /\ Len(q) >= 1
        /\ \A i, j \in 1..Len(q) : i /= j => q[i].key /= q[j].key}

InitMerge ==
    /\ StartLocals
    /\ atlas_query \in DistinctKeySeqs(MergeEntries, MaxEntries)
    /\ heap \in {("L1" :> items) : items \in MergeListContents}
    /\ atlas_index \in MergeCatalogs

SpecMerge == InitMerge /\ [][Next]_vars

(***************************************************************************)
(* Properties                                                              *)
(***************************************************************************)
Range(f) == {f[k] : k \in DOMAIN f}

\* the entry the next iteration processes
NextEntry == atlas_query[n + 1]

\* the step is an iteration that ran to its end
IterationDone == pc = "loop" /\ n < Len(atlas_query) /\ pc' = "loop"

\* the step is an iteration, ended either way
Iteration == pc = "loop" /\ n < Len(atlas_query)

\* a state in which the locals are those of a finished k-th iteration
AfterIteration == n >= 1 /\ pc /= "raised"

\* <path>__type: field tokens (identifier aliases included), then "type"
IsTypeLookup(key) ==
    /\ Len(key) >= 2
    /\ key[Len(key)] = "type"
    /\ \A k \in 1..(Len(key) - 1) : key[k] \notin keywords

\* C1: a type lookup of affirmative polarity appends exactly one $type
\* match-stage fragment on its path to other_aggregations and leaves the
\* affirmative and the negative list as they were.
C1_TypeOnlyOtherAggregations ==
    [][(IterationDone /\ IsTypeLookup(NextEntry.key))
        => /\ other_aggregations' =
                Append(other_aggregations, [op |-> "$match", path |-> path', type |-> value'])
           /\ affirmative' = affirmative
           /\ negative' = negative]_vars

\* a type lookup has been compiled and its value sits in the affirmative list
C1_Reached ==
    /\ pc = "returned"
    /\ IsTypeLookup(atlas_query[1].key)
    /\ Len(other_aggregations) = 1
    /\ Len(affirmative) = 1
    /\ affirmative[1].op = "text"

\* the scopes a fragment is wrapped in, outermost first: the path of each
\* and the container (must or mustNot) that holds the next level
RECURSIVE Peel(_)
Peel(f) ==
    IF f.op /= "embeddedDocument" THEN <<>>
    ELSE LET c == CHOOSE k \in DOMAIN f.compound : TRUE
         IN  IF Cardinality(DOMAIN f.compound) = 1 /\ Len(f.compound[c]) = 1
             THEN <<[path |-> f.path, container |-> c]>> \o Peel(f.compound[c][1])
             ELSE <<[path |-> f.path, container |-> "several"]>>

\* the fragment inside the scopes
RECURSIVE Leaf(_)
Leaf(f) ==
    IF f.op /= "embeddedDocument" THEN f
    ELSE LET c == CHOOSE k \in DOMAIN f.compound : TRUE
         IN  Leaf(f.compound[c][1])

\* the lengths of the proper prefixes of p typed as embedded document
EmbeddedPrefixes(index, p) ==
    {k \in 1..(Len(p) - 1) : SubSeq(p, 1, k) \in index.embedded}

\* the length of the chain of embedded-document prefixes p begins with
LeadingEmbedded(index, p) ==
    CHOOSE k \in 0..(Len(p) - 1) :
        /\ \A j \in 1..k : j \in EmbeddedPrefixes(index, p)
        /\ k + 1 \notin EmbeddedPrefixes(index, p)

\* a scope on the path of scope f is in the list and holds f's clauses
HeldBy(list, f) ==
    \E k \in 1..Len(list) :
        /\ list[k].op = "embeddedDocument"
        /\ list[k].path = f.path
        /\ \A c \in DOMAIN f.compound :
              /\ c \in DOMAIN list[k].compound
              /\ Range(f.compound[c]) \subseteq Range(list[k].compound[c])

\* the shape of a fragment wrapped for a path that begins with k embedded
\* prefixes: scope(prefix 1) ... scope(prefix k), all must except that the
\* innermost one is mustNot for a negated lookup
ChainShape(f, p, k, pos, leaf) ==
    /\ Peel(f) = [j \in 1..k |->
                    [path |-> SubSeq(p, 1, j),
                     container |-> IF j = k /\ pos = -1 THEN "mustNot" ELSE "must"]]
    /\ Leaf(f) = leaf

\* C2: in ensured mode, a lookup whose path begins with a chain of
\* embedded-document prefixes compiles to scope(a) holding scope(a.b)
\* holding the leaf operator; a negated lookup has mustNot exactly once, at
\* the innermost scope, and must at every outer scope; the wrapped fragment
\* goes to the affirmative list and the negative list is left alone.
C2_NegationAtInnermostScope ==
    /\ [](AfterIteration /\ obj /= NoneObj /\ atlas_index.ensured
            /\ LeadingEmbedded(atlas_index, path) >= 1
          => ChainShape(converted, path, LeadingEmbedded(atlas_index, path),
                        positive, obj))
    /\ [][(IterationDone /\ obj' /= NoneObj /\ atlas_index.ensured
            /\ LeadingEmbedded(atlas_index, path') >= 1)
          => /\ negative' = negative
             /\ HeldBy(affirmative', converted')]_vars

\* a negated lookup under two nested embedded prefixes has been compiled
C2_Reached ==
    /\ pc = "returned"
    /\ atlas_index.ensured
    /\ positive = -1
    /\ obj /= NoneObj
    /\ LeadingEmbedded(atlas_index, path) >= 2
    /\ Len(affirmative) = 1
    /\ affirmative[1] = converted
    /\ Peel(converted)[1].container = "must"
    /\ Peel(converted)[2].container = "mustNot"

\* the paths of the scopes around a fragment are the prefixes of p of the
\* lengths in ks, outermost first, and inside them is the leaf
WrappedFor(f, p, ks, leaf) ==
    /\ Len(Peel(f)) = Cardinality(ks)
    /\ \A j \in 1..Len(Peel(f)) :
          /\ Len(Peel(f)[j].path) \in ks
          /\ Peel(f)[j].path = SubSeq(p, 1, Len(Peel(f)[j].path))
          /\ j > 1 => Len(Peel(f)[j - 1].path) < Len(Peel(f)[j].path)
    /\ Leaf(f) = leaf

\* C4 as stated: in ensured mode the leaf operator is nested in one scope
\* for every proper prefix of its path typed as embedded document, whatever
\* the types of the other prefixes; otherwise it is returned unwrapped.
C4_ScopePerEmbeddedPrefix ==
    (AfterIteration /\ obj /= NoneObj)
    => IF atlas_index.ensured
       THEN WrappedFor(converted, path, EmbeddedPrefixes(atlas_index, path), obj)
       ELSE converted = obj

\* C4 as amended: in ensured mode the leaf operator is nested in one scope
\* for every prefix of the chain of embedded-document prefixes its path
\* begins with (the chain ends at the first proper prefix that is not an
\* embedded document); in non-ensured mode, or when the first prefix is not
\* embedded, it is returned unwrapped.
C4_ScopePerLeadingEmbeddedPrefix ==
    (AfterIteration /\ obj /= NoneObj)
    => IF atlas_index.ensured
       THEN WrappedFor(converted, path, 1..LeadingEmbedded(atlas_index, path), obj)
       ELSE converted = obj

\* a lookup has been compiled whose path has an embedded prefix after a
\* prefix that is not embedded
C4_Reached ==
    /\ pc = "returned"
    /\ atlas_index.ensured
    /\ obj /= NoneObj
    /\ EmbeddedPrefixes(atlas_index, path) /= 1..LeadingEmbedded(atlas_index, path)
    /\ LeadingEmbedded(atlas_index, path) >= 1
    /\ Len(Peel(affirmative[1])) = LeadingEmbedded(atlas_index, path)

\* the top-level scoping fragments of a list for path p
ScopesOn(list, p) ==
    {k \in 1..Len(list) : list[k].op = "embeddedDocument" /\ list[k].path = p}

\* the clauses the top-level scopes of a list for path p hold in container c
\* (must or mustNot)
RECURSIVE ClausesFrom(_, _, _, _)
ClausesFrom(list, p, c, k) ==
    IF k > Len(list) THEN <<>>
    ELSE (IF k \in ScopesOn(list, p) /\ c \in DOMAIN list[k].compound
          THEN list[k].compound[c] ELSE <<>>) \o ClausesFrom(list, p, c, k + 1)

Clauses(list, p, c) == ClausesFrom(list, p, c, 1)

Count(sq, x) == Cardinality({k \in 1..Len(sq) : sq[k] = x})

\* the paths of the top-level scopes of a list
ScopePaths(list) ==
    {list[k].path : k \in {j \in 1..Len(list) : list[j].op = "embeddedDocument"}}

\* the container (must or mustNot) of a freshly wrapped fragment
ContainerOf(f) == CHOOSE c \in DOMAIN f.compound : TRUE

\* C3: the affirmative list never holds two top-level scoping fragments for
\* the same path, and the one fragment for a path holds the condition of
\* every wrapped lookup whose outermost scope is that path: each wrapped
\* lookup adds its clause to the must or mustNot list of the scope on its
\* path and every clause held before is still held.
C3_OneScopePerPath ==
    /\ [](\A p \in ScopePaths(affirmative) : Cardinality(ScopesOn(affirmative, p)) = 1)
    /\ [][(IterationDone /\ obj' /= NoneObj /\ converted' /= obj')
          => \A p \in ScopePaths(affirmative) \cup {converted'.path} :
             \A c \in {"must", "mustNot"} :
             \A x \in Range(Clauses(affirmative, p, c))
                        \cup Range(Clauses(affirmative', p, c))
                        \cup Range(converted'.compound[ContainerOf(converted')]) :
                Count(Clauses(affirmative', p, c), x) =
                    Count(Clauses(affirmative, p, c), x)
                    + (IF /\ p = converted'.path
                          /\ c = ContainerOf(converted')
                          /\ x = converted'.compound[c][1]
                       THEN 1 ELSE 0)]_vars

\* two lookups wrapped under the same path have been compiled into one scope
C3_Reached ==
    /\ pc = "returned"
    /\ Len(atlas_query) = 2
    /\ Len(affirmative) = 1
    /\ affirmative[1].op = "embeddedDocument"
    /\ Len(Clauses(affirmative, affirmative[1].path, "must"))
         + Len(Clauses(affirmative, affirmative[1].path, "mustNot")) = 2

\* the locals as the scan of the next entry's key ends
NextScan ==
    ScanFrom(atlas_index,
             ScanStart(NextEntry, n + 1, affirmative, negative,
                       other_aggregations, converted, heap), 1)

\* the next entry's value is a list and the scan hands it to the
\* type-directed dispatcher (no keyword broke the scan, nothing was raised)
ListReachesDispatcher ==
    /\ ~NextScan.brk
    /\ ~IsRaise(NextScan.error)
    /\ NextScan.value.t = "list"

\* the list as the dispatcher receives it
DispatchedItems == NextScan.heap[NextScan.value.v]

\* non-null elements of more than one type
MixedTypes(items) ==
    \E i, j \in 1..Len(items) :
        /\ items[i] /= PyNone
        /\ items[j] /= PyNone
        /\ items[i].t /= items[j].t

\* the exceptions that stand for the error kind InvalidFieldValue
InvalidFieldValue == {"AtlasFieldError", "TypeError"}

\* C5: every list that reaches the type-directed dispatcher and is empty or
\* holds non-null elements of more than one type is rejected with
\* InvalidFieldValue, the empty list with the "cannot be empty" error, and
\* nothing is returned.
C5_BadListsRejected ==
    [][(Iteration /\ ListReachesDispatcher
            /\ (DispatchedItems = <<>> \/ MixedTypes(DispatchedItems)))
        => /\ pc' = "raised"
           /\ error'.exc \in InvalidFieldValue
           /\ DispatchedItems = <<>> => error'.msg = "cannot be empty"]_vars

\* an empty list reached the dispatcher and transform ended with IndexError
C5_Reached ==
    /\ pc = "raised"
    /\ atlas_query[1].key = <<"a">>
    /\ value.t = "list"
    /\ heap[value.v] = <<>>
    /\ error.exc = "IndexError"

NoKeyword(kp) == \A k \in 1..Len(kp) : kp[k] \notin keywords

\* the value whose type the dispatcher looks at
FirstOf(v, h) == IF v.t = "list" THEN h[v.v][1] ELSE v

\* the equals fragment for a value: one clause, or for a list a
\* compound.should of one clause per element with minimumShouldMatch = 1
EqualsForm(p, v, h) ==
    IF v.t = "list"
    THEN [op |-> "compound",
          compound |-> [should |-> [k \in 1..Len(h[v.v]) |->
                                      [op |-> "equals", path |-> p, value |-> h[v.v][k]]],
                        minimumShouldMatch |-> 1]]
    ELSE [op |-> "equals", path |-> p, value |-> v]

\* C6: for every accepted lookup with no operator keyword the fragment is
\* the equals form iff the type of the value (of the first element, for a
\* list) is boolean, object identifier, integer or timestamp, and a text
\* fragment otherwise.
C6_EqualsIffExactType ==
    (AfterIteration /\ NoKeyword(key_parts))
    => IF FirstOf(value, heap).t \in {"bool", "oid", "int", "datetime"}
       THEN obj = EqualsForm(path, value, heap)
       ELSE obj.op = "text" /\ obj.query = value

\* a list of two integers has been compiled to a compound.should
C6_Reached ==
    /\ pc = "returned"
    /\ NoKeyword(key_parts)
    /\ value.t = "list"
    /\ Len(heap[value.v]) = 2
    /\ FirstOf(value, heap).t = "int"
    /\ obj.op = "compound"
    /\ Len(obj.compound.should) = 2
    /\ affirmative = <<obj>>

\* the number of field tokens a size lookup begins with: <path>, then
\* negative keywords, then "size"; 0 when the key is of another form
SizePathLen(key) ==
    LET ms == {m \in 1..(Len(key) - 1) :
                  /\ \A k \in 1..m : key[k] \notin keywords
                  /\ \A k \in (m + 1)..(Len(key) - 1) : key[k] \in negative_keywords}
    IN  IF key /= <<>> /\ key[Len(key)] = "size" /\ ms /= {}
        THEN CHOOSE m \in ms : TRUE ELSE 0

\* the integer 0 (False is an instance of int and False == 0)
IsIntegerZero(v) == v \in {Val("int", "0"), PyFalse}

Last(sq) == sq[Len(sq)]

\* C8: for a lookup that produced a search-operator fragment: in ensured
\* mode transform raises IndexFieldError exactly when the catalog reports
\* the path or one of its prefixes as not indexed; in non-ensured mode the
\* lookup compiles, unwrapped, whatever the catalog holds.
C8_IndexedPathsOnly ==
    (n >= 1 /\ obj /= NoneObj)
    => IF atlas_index.ensured
       THEN /\ pc = "raised" <=>
                 \E k \in 1..Len(path) : SubSeq(path, 1, k) \notin atlas_index.indexed
            /\ pc = "raised" => error.exc = "AtlasIndexFieldError"
       ELSE /\ pc /= "raised"
            /\ converted = obj
            /\ IF positive = 1 THEN Last(affirmative) = obj
                               ELSE Last(negative) = obj

\* transform raised for a path that is indexed itself under a prefix that
\* is not
C8_Reached ==
    /\ pc = "raised"
    /\ atlas_index.ensured
    /\ obj /= NoneObj
    /\ error.exc = "AtlasIndexFieldError"
    /\ Len(path) >= 2
    /\ path \in atlas_index.indexed

\* the elements of a list after coercion, given the elements before:
\* strings parsed, identifiers kept
CoercedItems(before, after) ==
    /\ Len(after) = Len(before)
    /\ \A k \in 1..Len(before) :
          IF before[k].t = "str"
          THEN before[k].v \in ValidObjectIdStrings /\ after[k] = Val("oid", before[k].v)
          ELSE before[k].t = "oid" /\ after[k] = before[k]

\* v2 (with heap h2) is the value v (with heap h) coerced to the identifier
\* type: a string parsed, a list coerced element by element, an identifier
\* kept; no other type can be coerced (a QuerySet counts as the list made
\* of it)
Coerced(v, h, v2, h2) ==
    CASE v.t = "str" -> v.v \in ValidObjectIdStrings /\ v2 = Val("oid", v.v)
      [] v.t = "oid" -> v2 = v
      [] v.t = "list" -> v2 = v /\ CoercedItems(h[v.v], h2[v.v])
      [] v.t = "queryset" -> v2.t = "list" /\ CoercedItems(QuerySetItems(v), h2[v2.v])
      [] OTHER -> FALSE

\* the alias tokens of the path are replaced by "_id"
AliasesReplaced(key, p) ==
    \A k \in 1..Len(p) : p[k] = IF key[k] \in id_keywords THEN "_id" ELSE key[k]

\* compiling {id: <valid identifier string>} appends one equals fragment on
\* _id, with the parsed identifier, to the affirmative list
IdExample ==
    (NextEntry.key = <<"id">> /\ NextEntry.value.t = "str")
    => /\ affirmative' = Append(affirmative,
                                [op |-> "equals", path |-> <<"_id">>,
                                 value |-> Val("oid", NextEntry.value.v)])
       /\ negative' = negative

\* C10 as stated: whenever a token of the key is an identifier alias, the
\* alias is replaced by _id in the path and the value is coerced to the
\* identifier type, so that {id: <valid string>} compiles to one affirmative
\* equals fragment on _id with the parsed identifier.
C10_EveryAliasCoerces ==
    [][(IterationDone /\ \E k \in 1..Len(NextEntry.key) : NextEntry.key[k] \in id_keywords)
        => /\ Coerced(NextEntry.value, heap, value', heap')
           /\ AliasesReplaced(NextEntry.key, path')
           /\ IdExample]_vars

\* the keywords at which the scan of the key's tokens stops
ScanEnding ==
    (size_keywords \cup exists_keywords \cup range_keywords \cup equals_keywords
        \cup text_keywords \cup regex_keywords \cup all_keywords
        \cup startswith_keywords \cup endswith_keywords) \cap keywords

\* a token of the key is an identifier alias and no earlier token ends the scan
AliasScanned(key) ==
    \E k \in 1..Len(key) :
        /\ key[k] \in id_keywords
        /\ \A j \in 1..(k - 1) : key[j] \notin ScanEnding

\* C10 as amended: whenever a token of the key is an identifier alias that
\* the scan reaches (no earlier token is a keyword that ends the scan), the
\* aliases in the path are replaced by _id and the value is coerced to the
\* identifier type, so that {id: <valid string>} compiles to one affirmative
\* equals fragment on _id with the parsed identifier.
C10_ScannedAliasCoerces ==
    [][(IterationDone /\ AliasScanned(NextEntry.key))
        => /\ Coerced(NextEntry.value, heap, value', heap')
           /\ AliasesReplaced(NextEntry.key, path')
           /\ IdExample]_vars

\* {pk__in: [<string>, <identifier>]} has been compiled: the path is _id and
\* both elements of the list are identifiers
C10_Reached ==
    /\ pc = "returned"
    /\ atlas_query[1] = Entry(<<"pk", "in">>, Val("list", "L1"))
    /\ path = <<"_id">>
    /\ value = Val("list", "L1")
    /\ Len(heap["L1"]) = 2
    /\ heap["L1"][1] = Val("oid", "5f0000000000000000000001")
    /\ heap["L1"][2] = Val("oid", "5f0000000000000000000002")
    /\ obj.op = "compound"
    /\ affirmative = <<obj>>

\* a sequence as the bag of its elements
BagOf(sq) == [x \in Range(sq) |-> Count(sq, x)]

\* a fragment with every clause list replaced by the bag of its clauses
RECURSIVE Unordered(_)
Unordered(f) ==
    IF f.op \in {"compound", "embeddedDocument"}
    THEN [f EXCEPT !.compound =
            [c \in DOMAIN f.compound |->
                IF c = "minimumShouldMatch" THEN f.compound[c]
                ELSE BagOf([k \in 1..Len(f.compound[c]) |-> Unordered(f.compound[c][k])])]]
    ELSE f

\* the content of a returned list: the bag of its fragments, with the lists
\* they refer to read from the heap and clause order ignored
Content(list, h) == BagOf([k \in 1..Len(list) |-> Unordered(Deref(list[k], h))])

\* two runs of transform end the same way: both raise, or both return the
\* same contents
SameOutcome(r1, r2) ==
    /\ r1.status = r2.status
    /\ r1.status = "returned" =>
          /\ Content(r1.affirmative, r1.heap) = Content(r2.affirmative, r2.heap)
          /\ Content(r1.negative, r1.heap) = Content(r2.negative, r2.heap)
          /\ Content(r1.other_aggregations, r1.heap)
                = Content(r2.other_aggregations, r2.heap)

\* the mapping with its entries in the order pi
Reordered(query, pi) == [k \in 1..Len(query) |-> query[pi[k]]]

\* C9: transform does not depend on the order in which the entries of the
\* mapping are iterated: for every permutation of the entries it raises in
\* both orders or returns the same affirmative, negative and
\* other_aggregations contents, up to the order of the clauses in a list.
C9_OrderIndependent ==
    (pc = "loop" /\ n = 0)
    => \A pi \in Permutations(1..Len(atlas_query)) :
          SameOutcome(transform(atlas_index, atlas_query, heap),
                      transform(atlas_index, Reordered(atlas_query, pi), heap))

\* two entries hold the same list object and the key of one of them names
\* the identifier by an alias
SharedListUnderAlias(query) ==
    \E i, j \in 1..Len(query) :
        /\ i /= j
        /\ query[i].value.t = "list"
        /\ query[j].value = query[i].value
        /\ \E k \in 1..Len(query[i].key) : query[i].key[k] \in id_keywords

\* order independence of the mappings in which no list is shared with an
\* identifier lookup
OrderIndependentUnlessShared ==
    (pc = "loop" /\ n = 0 /\ ~SharedListUnderAlias(atlas_query))
    => \A pi \in Permutations(1..Len(atlas_query)) :
          SameOutcome(transform(atlas_index, atlas_query, heap),
                      transform(atlas_index, Reordered(atlas_query, pi), heap))

\* a list of strings given under an identifier alias and under another key
\* has been compiled: the other lookup's fragment shows identifiers
C9_Reached ==
    /\ pc = "returned"
    /\ SharedListUnderAlias(atlas_query)
    /\ atlas_query[2].key = <<"id", "in">>
    /\ Len(affirmative) = 2
    /\ affirmative[1].op = "text"
    /\ Deref(affirmative[1], heap).query.items[1].t = "oid"

\* no two scoping fragments of a list carry the same path
DistinctScopePaths(list) ==
    \A i, j \in 1..Len(list) :
        (/\ i /= j
         /\ list[i].op = "embeddedDocument"
         /\ list[j].op = "embeddedDocument") => list[i].path /= list[j].path

\* the clause lists (must, mustNot, should) a fragment holds directly
ClauseLists(f) ==
    IF f.op \in {"compound", "embeddedDocument"}
    THEN {f.compound[c] : c \in DOMAIN f.compound \ {"minimumShouldMatch"}}
    ELSE {}

\* a list of fragments has no sibling scopes on one path, at any depth
RECURSIVE NoSiblingScopes(_)
NoSiblingScopes(list) ==
    /\ DistinctScopePaths(list)
    /\ \A k \in 1..Len(list) : \A inner \in ClauseLists(list[k]) : NoSiblingScopes(inner)

\* C11: after compiling any mapping, nowhere in the output, neither at top
\* level nor inside the must/mustNot list of another scope, do two sibling
\* scoping clauses carry the same path: all conditions of one nested path
\* are held by a single scope at every depth.
C11_OneScopeAtEveryDepth ==
    pc = "returned"
    => /\ NoSiblingScopes(affirmative)
       /\ NoSiblingScopes(negative)
       /\ NoSiblingScopes(other_aggregations)

\* two lookups under a.b, with a and a.b both embedded, have been compiled:
\* the one scope on a holds two scopes on a.b
C11_Reached ==
    /\ pc = "returned"
    /\ Len(atlas_query) = 2
    /\ atlas_index.embedded = {<<"a">>, <<"a", "b">>}
    /\ Len(affirmative) = 1
    /\ affirmative[1].op = "embeddedDocument"
    /\ affirmative[1].path = <<"a">>
    /\ "must" \in DOMAIN affirmative[1].compound
    /\ Len(affirmative[1].compound.must) = 2
    /\ \A k \in 1..2 :
          /\ affirmative[1].compound.must[k].op = "embeddedDocument"
          /\ affirmative[1].compound.must[k].path = <<"a", "b">>

\* the positions of the key's tokens at which the scan stops
ScanEnds(key) == {k \in 1..Len(key) : key[k] \in ScanEnding}

\* the position of the last token the scan looks at
LastScanned(key) ==
    IF ScanEnds(key) = {} THEN Len(key)
    ELSE CHOOSE k \in ScanEnds(key) : \A j \in ScanEnds(key) : k <= j

\* the number of negations of a lookup: the negative keywords scanned, and
\* one more for an exists lookup whose value is False
Flips(entry) ==
    Cardinality({k \in 1..LastScanned(entry.key) : entry.key[k] \in negative_keywords})
    + (IF /\ ScanEnds(entry.key) /= {}
          /\ entry.key[LastScanned(entry.key)] \in exists_keywords
          /\ entry.value = PyFalse
       THEN 1 ELSE 0)

\* the positions of the key's tokens that are keywords
KeywordPositions(key) == {k \in 1..Len(key) : key[k] \in keywords}

\* the position of the first keyword of the key, one past its end if none
FirstKeyword(key) ==
    IF KeywordPositions(key) = {} THEN Len(key) + 1
    ELSE CHOOSE k \in KeywordPositions(key) : \A j \in KeywordPositions(key) : k <= j

\* the key with one more negation: "not" put in front of its first keyword
WithNot(key) ==
    SubSeq(key, 1, FirstKeyword(key) - 1) \o <<"not">>
        \o SubSeq(key, FirstKeyword(key), Len(key))

\* the iteration the next entry would go through with one more negation
Negated ==
    LoopBody(atlas_index, [NextEntry EXCEPT !.key = WithNot(@)], n + 1,
             affirmative, negative, other_aggregations, converted, heap)

\* C12: the polarity of a compiled search fragment is the parity of the
\* lookup's negations (each negative keyword scanned, plus one for exists
\* with value False): an unwrapped fragment is appended to exactly one
\* list, the affirmative one for an even number and the negative one for
\* an odd number, and the fragment itself is the same in both cases: the
\* same lookup with one more negation gives the same fragment, in the
\* other list.
C12_PolarityIsParity ==
    [][(IterationDone /\ obj' /= NoneObj /\ converted' = obj')
        => /\ positive' = (IF Flips(NextEntry) % 2 = 0 THEN 1 ELSE -1)
           /\ IF Flips(NextEntry) % 2 = 0
              THEN affirmative' = Append(affirmative, obj') /\ negative' = negative
              ELSE negative' = Append(negative, obj') /\ affirmative' = affirmative
           /\ (FirstKeyword(NextEntry.key) > 1 /\ ~IsRaise(Negated.error))
              => /\ Negated.obj = obj'
                 /\ Negated.positive = -1 * positive'
                 /\ IF Flips(NextEntry) % 2 = 0
                    THEN /\ Negated.negative = Append(negative, obj')
                         /\ Negated.affirmative = affirmative
                    ELSE /\ Negated.affirmative = Append(affirmative, obj')
                         /\ Negated.negative = negative]_vars

\* {a__not__exists: False} has been compiled: two negations, and the exists
\* fragment is in the affirmative list
C12_Reached ==
    /\ pc = "returned"
    /\ atlas_query[1].value = PyFalse
    /\ key_parts = <<"a", "not", "exists">>
    /\ positive = 1
    /\ affirmative = <<_exists(<<"a">>)>>
    /\ negative = <<>>

\* {a__exists: False} has been compiled: the exists fragment is in the
\* negative list
ExistsFalse_Reached ==
    /\ pc = "returned"
    /\ atlas_query[1].value = PyFalse
    /\ key_parts = <<"a", "exists">>
    /\ affirmative = <<>>
    /\ negative = <<_exists(<<"a">>)>>

\* a step leaves the mapping and every list object that exists unchanged
InputsUnchanged ==
    /\ atlas_query' = atlas_query
    /\ \A r \in DOMAIN heap : r \in DOMAIN heap' /\ heap'[r] = heap[r]

\* compiling the mapping a second time, with the lists as the first compile
\* left them, ends as the first compile did
SameTwice ==
    LET first == transform(atlas_index, atlas_query, heap)
        second == transform(atlas_index, atlas_query, first.heap)
    IN  /\ second.status = first.status
        /\ first.status = "returned" =>
              /\ DerefAll(second.affirmative, second.heap)
                    = DerefAll(first.affirmative, first.heap)
              /\ DerefAll(second.negative, second.heap)
                    = DerefAll(first.negative, first.heap)
              /\ DerefAll(second.other_aggregations, second.heap)
                    = DerefAll(first.other_aggregations, first.heap)

\* compiling twice gives equal outputs, for every mapping
TwiceEqual == (pc = "loop" /\ n = 0) => SameTwice

\* C13: compile is a pure function of its inputs: no step of it changes the
\* input mapping or a value in it (the list given for an identifier-alias
\* field included), whether it returns or fails, and compiling the same
\* mapping against the same catalog twice returns equal outputs.
C13_Pure ==
    [][/\ InputsUnchanged
       /\ (pc = "loop" /\ n = 0) => SameTwice]_vars

\* {pk__in: [<string>, ...]} has been compiled and the caller's list no
\* longer holds the string it was given
C13_Reached ==
    /\ pc = "returned"
    /\ \E k \in 1..Len(atlas_query[1].key) : atlas_query[1].key[k] \in id_keywords
    /\ atlas_query[1].value = Val("list", "L1")
    /\ heap["L1"][1] = Val("oid", "5f0000000000000000000001")
    /\ affirmative /= <<>>

====
